---- MODULE Spec2Model ----
(***************************************************************************)
(* A model of log_call.py: the call wrapper _CallableWrapper, its          *)
(* per-invocation context _InvocationContext (serial number, per-thread    *)
(* stack level, entered/exited flags) and the records it hands to the      *)
(* logging sink.  Threads run wrapped callables concurrently; a wrapped    *)
(* target may return, raise, or call another wrapped callable.             *)
(***************************************************************************)
EXTENDS Integers, Sequences, FiniteSets, TLC

(* ------------------------------ bounds --------------------------------- *)
NThreads == 2
MaxDepth == 2
MaxCalls == 2

Threads == 1..NThreads

(* ------------------------- values and failures ------------------------- *)
\* Objects a target can return or take as an argument.  "Falsy" stands for
\* the objects whose __repr__ works (False, 0, an empty tuple, another
\* _CallableWrapper, ...); "BadRepr" has a __repr__ that raises and "BadBoth"
\* has a __repr__ and a __str__ that raise.
Values == {"Falsy", "BadRepr", "BadBoth"}
ArgValues == {"Falsy", "BadBoth"}
ReturnValues == {"Falsy", "BadRepr"}

\* Failures.  KeyboardInterrupt is a BaseException that is not an Exception;
\* BadReprError is an Exception whose __repr__ raises; ReprFailure is what a
\* broken __repr__/__str__ raises; SinkError is what a failing logging
\* handler or filter raises out of Logger.log.
Failures == {"RuntimeError", "KeyboardInterrupt", "BadReprError", "ReprFailure", "SinkError"}
TargetFailures == {"RuntimeError", "KeyboardInterrupt", "BadReprError"}

\* A handler clause that takes every failure (`except BaseException`).
IsBaseException(e) == TRUE

\* isinstance(e, Exception): what `except Exception` catches.
IsException(e) == e # "KeyboardInterrupt"

None == [kind |-> "none", val |-> "none"]
Returned(v) == [kind |-> "returned", val |-> v]
Raised(e) == [kind |-> "raised", val |-> e]

\* repr(x): the text, or the failure the object's __repr__ raises.
Repr(x) ==
    IF x \in {"BadRepr", "BadBoth", "BadReprError"}
    THEN Raised("ReprFailure")
    ELSE Returned("repr:" \o x)

\* str(x): the text, or the failure the object's __str__ raises.
Str(x) ==
    IF x = "BadBoth" THEN Raised("ReprFailure") ELSE Returned("str:" \o x)

\* A rendering that tries str() before repr().
format_object_str_first(x) ==
    IF Str(x).kind = "returned" THEN Str(x).val
    ELSE IF Repr(x).kind = "returned" THEN Repr(x).val
    ELSE "(" \o x \o " instance)"

\* _format_object: repr, else str, else "(<type> instance)".
format_object(x) ==
    IF Repr(x).kind = "returned" THEN Repr(x).val
    ELSE IF Str(x).kind = "returned" THEN Str(x).val
    ELSE "(" \o x \o " instance)"

(* ------------------------------- state --------------------------------- *)
VARIABLES
    serial_number,       \* _InvocationContext._serial_number (class attribute)
    serial_number_lock,  \* holder of _serial_number_lock, 0 when free
    call_stack_level,    \* _thread_local.call_stack_level, by storage key; a class
                         \* attribute, so one counter serves every wrapper
    stack,               \* per thread: the active __call__ activations
    log,                 \* records accepted by the logging sink, in order
    ncalls,              \* wrapper invocations started so far
    issued,              \* the serial numbers handed out, in the order read
    call_arg,            \* the argument object the callers of this run pass
    unit                 \* the last operation applied on its own, with its input
                         \* and result (used by SpecUnit only)

vars == <<serial_number, serial_number_lock, call_stack_level, stack, log, ncalls,
          issued, call_arg, unit>>

\* No operation has been applied on its own.
NoUnit == [op |-> "none"]

Top(t) == stack[t][Len(stack[t])]

SetTop(t, f) == [stack EXCEPT ![t] = [@ EXCEPT ![Len(@)] = f]]

\* Where a thread's call_stack_level lives: threading.local() gives each
\* thread its own attribute namespace.
DepthKeyShared(t) == 1
DepthKey(t) == t

\* getattr(_thread_local, "call_stack_level", 0) as thread t sees it.
Depth(t) == call_stack_level[DepthKey(t)]

Init ==
    /\ serial_number = 0
    /\ serial_number_lock = 0
    /\ call_stack_level = [k \in Threads |-> 0]
    /\ stack = [t \in Threads |-> <<>>]
    /\ log = <<>>
    /\ ncalls = 0
    /\ issued = <<>>
    /\ call_arg \in ArgValues
    /\ unit = NoUnit

(* ------------------------- wrapper invocation -------------------------- *)
\* __call__ is invoked with argument arg: by the thread's own code when no
\* wrapped call is active, or by a running target (nested call).  The
\* context's constructor starts with _get_serial_number.
NewFrame(arg) ==
    [pc |-> "acquire", arg |-> arg, tmp |-> 0, serial |-> 0,
     entered |-> FALSE, exited |-> FALSE, stack_level |-> 0,
     tgt |-> None, out |-> None]

Call(t) ==
    /\ ncalls < MaxCalls
    /\ Len(stack[t]) < MaxDepth
    /\ stack[t] # <<>> => Top(t).pc = "target"
    /\ stack' = [stack EXCEPT ![t] = Append(@, NewFrame(call_arg))]
    /\ ncalls' = ncalls + 1
    /\ UNCHANGED <<serial_number, serial_number_lock, call_stack_level, log, issued,
                   call_arg, unit>>

\* with cls._serial_number_lock: (acquire)
LockAlwaysFree(l) == TRUE
LockFree(l) == l = 0

Acquire(t) ==
    /\ stack[t] # <<>>
    /\ Top(t).pc = "acquire"
    /\ LockFree(serial_number_lock)
    /\ serial_number_lock' = t
    /\ stack' = SetTop(t, [Top(t) EXCEPT !.pc = "load"])
    /\ UNCHANGED <<serial_number, call_stack_level, log, ncalls, issued, call_arg, unit>>

\* cls._serial_number += 1 (read of the class attribute)
Load(t) ==
    /\ stack[t] # <<>>
    /\ Top(t).pc = "load"
    /\ stack' = SetTop(t, [Top(t) EXCEPT !.pc = "store", !.tmp = serial_number])
    /\ UNCHANGED <<serial_number, serial_number_lock, call_stack_level, log, ncalls, issued, call_arg, unit>>

\* cls._serial_number += 1 (write of the class attribute)
Store(t) ==
    /\ stack[t] # <<>>
    /\ Top(t).pc = "store"
    /\ serial_number' = Top(t).tmp + 1
    /\ stack' = SetTop(t, [Top(t) EXCEPT !.pc = "read", !.tmp = 0])
    /\ UNCHANGED <<serial_number_lock, call_stack_level, log, ncalls, issued, call_arg, unit>>

\* serial_number = cls._serial_number
Read(t) ==
    /\ stack[t] # <<>>
    /\ Top(t).pc = "read"
    /\ stack' = SetTop(t, [Top(t) EXCEPT !.pc = "release", !.serial = serial_number])
    /\ issued' = Append(issued, serial_number)
    /\ UNCHANGED <<serial_number, serial_number_lock, call_stack_level, log, ncalls, call_arg, unit>>

\* leaving the with block releases the lock; the constructor then clears
\* _entered and _exited.
Release(t) ==
    /\ stack[t] # <<>>
    /\ Top(t).pc = "release"
    /\ serial_number_lock' = IF serial_number_lock = t THEN 0 ELSE serial_number_lock
    /\ stack' = SetTop(t, [Top(t) EXCEPT !.pc = "enter"])
    /\ UNCHANGED <<serial_number, call_stack_level, log, ncalls, issued, call_arg, unit>>

(* __enter__ (lines 55-61): the level is the thread's depth plus one. *)
EnterLevelSame(d) == d
EnterLevel(d) == d + 1

Enter(t) ==
    /\ stack[t] # <<>>
    /\ Top(t).pc = "enter"
    /\ ~Top(t).entered                       \* assert not self._entered
    /\ LET level == EnterLevel(Depth(t)) IN
        /\ stack' = SetTop(t, [Top(t) EXCEPT !.pc = "log_enter", !.entered = TRUE,
                                             !.stack_level = level])
        /\ call_stack_level' = [call_stack_level EXCEPT ![DepthKey(t)] = level]
    /\ UNCHANGED <<serial_number, serial_number_lock, log, ncalls, issued, call_arg, unit>>

\* context.stack_level (lines 75-79): the level recorded at entry, not the
\* thread's current depth.
stack_level_of_thread(t, f) == Depth(t)
stack_level(t, f) == f.stack_level

\* The record _log_enter builds (lines 138-143).
EnteredRecord(t, f) ==
    [kind |-> "entered", thread |-> t, serial |-> f.serial,
     indent |-> stack_level(t, f) - 1, shape |-> "started",
     text |-> format_object(f.arg)]

\* _log_enter (lines 136-149): the sink takes the record, or Logger.log
\* raises and the failure leaves the with block without the target running.
LogEnter(t) ==
    /\ stack[t] # <<>>
    /\ Top(t).pc = "log_enter"
    /\ Top(t).entered                        \* assert self._entered
    /\ \/ /\ log' = Append(log, EnteredRecord(t, Top(t)))
          /\ stack' = SetTop(t, [Top(t) EXCEPT !.pc = "target"])
       \/ /\ stack' = SetTop(t, [Top(t) EXCEPT !.pc = "exit", !.out = Raised("SinkError")])
          /\ UNCHANGED log
    /\ UNCHANGED <<serial_number, serial_number_lock, call_stack_level, ncalls, issued, call_arg, unit>>

\* returned = self._callable(*args, **kwargs): the target returns v.
TargetReturns(t) ==
    /\ stack[t] # <<>>
    /\ Top(t).pc = "target"
    /\ \E v \in ReturnValues :
        stack' = SetTop(t, [Top(t) EXCEPT !.pc = "exit", !.tgt = Returned(v),
                                          !.out = Returned(v)])
    /\ UNCHANGED <<serial_number, serial_number_lock, call_stack_level, log, ncalls, issued, call_arg, unit>>

\* self._callable(*args, **kwargs) raises e.
TargetRaises(t) ==
    /\ stack[t] # <<>>
    /\ Top(t).pc = "target"
    /\ \E e \in TargetFailures :
        stack' = SetTop(t, [Top(t) EXCEPT !.pc = "exit", !.tgt = Raised(e),
                                          !.out = Raised(e)])
    /\ UNCHANGED <<serial_number, serial_number_lock, call_stack_level, log, ncalls, issued, call_arg, unit>>

(* __exit__ (lines 62-66): restores the thread's depth, marks the context  *)
(* exited and returns False, so a failure in flight keeps propagating.     *)
ExitDepthKeep(level) == level
ExitDepth(level) == level - 1

\* A wrapper that never reports how the with block ended.
AfterWithDone(out) == "done"

\* After the with block: `except Exception` takes ordinary failures, `else`
\* takes a normal return; any other failure leaves __call__ at once.
AfterWith(out) ==
    IF out.kind = "raised" /\ ~IsException(out.val) THEN "done" ELSE "log_exit"

\* A with block that is left without __exit__ being called.
ExitSkipped(t) ==
    /\ stack[t] # <<>>
    /\ Top(t).pc = "exit"
    /\ stack' = SetTop(t, [Top(t) EXCEPT !.pc = AfterWith(Top(t).out)])
    /\ UNCHANGED <<serial_number, serial_number_lock, call_stack_level, log, ncalls, issued,
                   call_arg, unit>>

Exit(t) ==
    /\ stack[t] # <<>>
    /\ Top(t).pc = "exit"
    /\ call_stack_level' =
        [call_stack_level EXCEPT ![DepthKey(t)] = ExitDepth(Top(t).stack_level)]
    /\ stack' = SetTop(t, [Top(t) EXCEPT !.pc = AfterWith(Top(t).out), !.exited = TRUE])
    /\ UNCHANGED <<serial_number, serial_number_lock, log, ncalls, issued, call_arg, unit>>

\* An exited record written without indent.
ExitedRecordFlat(t, f, text) ==
    [kind |-> "exited", thread |-> t, serial |-> f.serial,
     indent |-> 0, shape |-> f.out.kind, text |-> text]

\* The record _log_exit builds (lines 158-170) once the result is rendered.
ExitedRecord(t, f, text) ==
    [kind |-> "exited", thread |-> t, serial |-> f.serial,
     indent |-> stack_level(t, f) - 1, shape |-> f.out.kind, text |-> text]

\* _log_exit (lines 156-176), then `raise` or `return returned`.  The result
\* is rendered with {raised!r} / {returned!r}; a failure of that rendering,
\* or of Logger.log, leaves __call__ in place of the pending result.
LogExit(t) ==
    /\ stack[t] # <<>>
    /\ Top(t).pc = "log_exit"
    /\ Top(t).entered                        \* assert self._entered
    /\ Top(t).exited                         \* assert self._exited
    /\ LET r == Repr(Top(t).out.val) IN
        IF r.kind = "raised"
        THEN /\ stack' = SetTop(t, [Top(t) EXCEPT !.pc = "done", !.out = r])
             /\ UNCHANGED log
        ELSE \/ /\ log' = Append(log, ExitedRecord(t, Top(t), r.val))
                /\ stack' = SetTop(t, [Top(t) EXCEPT !.pc = "done"])
             \/ /\ stack' = SetTop(t, [Top(t) EXCEPT !.pc = "done",
                                                     !.out = Raised("SinkError")])
                /\ UNCHANGED log
    /\ UNCHANGED <<serial_number, serial_number_lock, call_stack_level, ncalls, issued, call_arg, unit>>

\* __call__ hands its result to its caller.  A calling target goes on after a
\* returned value; a failure it either handles (and goes on) or lets through,
\* which makes it the target's own failure.
Return(t) ==
    /\ stack[t] # <<>>
    /\ Top(t).pc = "done"
    /\ LET n == Len(stack[t])
           out == Top(t).out
           rest == SubSeq(stack[t], 1, n - 1)
       IN  IF n = 1 \/ out.kind = "returned"
           THEN stack' = [stack EXCEPT ![t] = rest]
           ELSE \/ stack' = [stack EXCEPT ![t] = rest]
                \/ stack' = [stack EXCEPT ![t] =
                        [rest EXCEPT ![n - 1] =
                            [@ EXCEPT !.pc = "exit", !.tgt = out, !.out = out]]]
    /\ UNCHANGED <<serial_number, serial_number_lock, call_stack_level, log, ncalls, issued, call_arg, unit>>

Next ==
    \E t \in Threads :
        \/ Call(t)
        \/ Acquire(t)
        \/ Load(t)
        \/ Store(t)
        \/ Read(t)
        \/ Release(t)
        \/ Enter(t)
        \/ LogEnter(t)
        \/ TargetReturns(t)
        \/ TargetRaises(t)
        \/ Exit(t)
        \/ LogExit(t)
        \/ Return(t)

Spec == Init /\ [][Next]_vars

(* ------------------------------ properties ----------------------------- *)
FramesOf(t) == {stack[t][i] : i \in DOMAIN stack[t]}
AllFrames == UNION {FramesOf(t) : t \in Threads}
IsOpen(f) == f.entered /\ ~f.exited
EnteredAt(s) == {i \in DOMAIN log : log[i].kind = "entered" /\ log[i].serial = s}
ExitedAt(s) == {i \in DOMAIN log : log[i].kind = "exited" /\ log[i].serial = s}

\* The logging sink refused a record of this invocation or of one below it.
SinkFailed(f) == f.out = Raised("SinkError")

\* The target ran and ended by returning or by raising an ordinary failure.
TargetEnded(f) ==
    \/ f.tgt.kind = "returned"
    \/ f.tgt.kind = "raised" /\ IsException(f.tgt.val)

\* C1: when __call__ is about to hand its result to its caller and the target
\* returned v (the sink having taken every record), that result is the
\* return of the same v.
C1_ReturnsTargetValue ==
    \A f \in AllFrames :
        (f.pc = "done" /\ f.tgt.kind = "returned" /\ ~SinkFailed(f)) => f.out = f.tgt

\* C2: when the target raised e (the sink having taken every record), what
\* leaves __call__ is the raise of the same e, not another failure and not a
\* value.
C2_PropagatesTargetFailure ==
    \A f \in AllFrames :
        (f.pc = "done" /\ f.tgt.kind = "raised" /\ ~SinkFailed(f)) => f.out = f.tgt

\* C3: the entered record of an invocation is in the log once its target
\* runs, and when the target has returned or raised an ordinary failure (the
\* sink having taken every record) an exited record of the same invocation
\* follows it in the log.
C3_EnteredThenExited ==
    \A f \in AllFrames :
        /\ (f.pc = "target" \/ f.tgt.kind # "none") => EnteredAt(f.serial) # {}
        /\ (f.pc = "done" /\ TargetEnded(f) /\ ~SinkFailed(f)) =>
              \E i \in EnteredAt(f.serial) : \E j \in ExitedAt(f.serial) : i < j

\* C4: an invocation whose target has returned or raised an ordinary failure
\* (the sink having taken every record) has exactly one entered and exactly
\* one exited record in the log, and no invocation ever has more than one of
\* either.
C4_OneEnteredOneExited ==
    /\ \A s \in 1..serial_number :
          Cardinality(EnteredAt(s)) <= 1 /\ Cardinality(ExitedAt(s)) <= 1
    /\ \A f \in AllFrames :
          (f.pc = "done" /\ TargetEnded(f) /\ ~SinkFailed(f)) =>
              Cardinality(EnteredAt(f.serial)) = 1 /\ Cardinality(ExitedAt(f.serial)) = 1

\* C5: the outermost invocation of a thread has stack level 1, a nested one
\* has its parent's level plus 1, and once the nested context has exited (and
\* whenever an invocation is the innermost open one) the thread's depth
\* counter is the enclosing invocation's level.
C5_StackLevels ==
    \A t \in Threads : \A i \in DOMAIN stack[t] :
        LET f == stack[t][i] IN
        /\ (f.entered /\ i = 1) => f.stack_level = 1
        /\ (f.entered /\ i > 1) => f.stack_level = stack[t][i - 1].stack_level + 1
        /\ (f.exited /\ i > 1) => Depth(t) = stack[t][i - 1].stack_level
        /\ (IsOpen(f) /\ i = Len(stack[t])) => Depth(t) = f.stack_level

C5_Witness ==
    \E t \in Threads :
        /\ Len(stack[t]) = 2
        /\ stack[t][2].exited
        /\ stack[t][2].stack_level = 2
        /\ stack[t][1].stack_level = 1
        /\ Depth(t) = 1

\* C6: past its with block every invocation has an entered and exited
\* context, whatever the outcome; a thread's depth counter is the number of
\* contexts open on it, never negative, and 0 when the thread has no wrapped
\* invocation in progress.
C6_DepthCountsOpenContexts ==
    /\ \A f \in AllFrames :
          /\ f.pc \in {"log_exit", "done"} => f.entered /\ f.exited
          /\ f.pc \in {"log_enter", "target", "exit"} => IsOpen(f)
    /\ \A t \in Threads :
          /\ Depth(t) = Cardinality({i \in DOMAIN stack[t] : IsOpen(stack[t][i])})
          /\ Depth(t) >= 0
          /\ stack[t] = <<>> => Depth(t) = 0

\* A nested invocation left by an interrupt-class failure, its context
\* exited and the depth back at the parent's level.
C6_Witness ==
    \E t \in Threads :
        /\ Len(stack[t]) = 2
        /\ Top(t).pc = "done"
        /\ Top(t).out = Raised("KeyboardInterrupt")
        /\ Top(t).exited
        /\ Depth(t) = 1

\* C7: the serial numbers handed out are 1, 2, 3, ... in that order (no
\* duplicate, no gap, no reset), the counter never falls behind them, and no
\* two live contexts hold the same serial number.
C7_SerialsUniqueIncreasing ==
    /\ \A i \in DOMAIN issued : issued[i] = i
    /\ Len(issued) <= serial_number
    /\ serial_number <= ncalls
    /\ \A t, u \in Threads : \A i \in DOMAIN stack[t] : \A j \in DOMAIN stack[u] :
          (stack[t][i].serial # 0 /\ stack[t][i].serial = stack[u][j].serial)
              => (t = u /\ i = j)

\* Two threads in the context constructor at the same time: the first has
\* just left the lock with id 1, the second holds the lock and has read id 2.
C7_Witness ==
    \E t, u \in Threads :
        /\ t # u
        /\ stack[t] # <<>> /\ stack[u] # <<>>
        /\ Top(t).pc = "enter" /\ Top(t).serial = 1
        /\ Top(u).pc = "release" /\ Top(u).serial = 2
        /\ serial_number_lock = u
        /\ issued = <<1, 2>>

\* C8: a step changes the depth counter thread t sees only if it is a step of
\* t itself, and the level a context got at entry is 1 plus the number of
\* contexts open below it on its own thread.
C8_DepthPerThread ==
    /\ [](\A t \in Threads : \A i \in DOMAIN stack[t] :
            stack[t][i].entered =>
                stack[t][i].stack_level =
                    1 + Cardinality({j \in 1..(i - 1) : IsOpen(stack[t][j])}))
    /\ [][\A t \in Threads : Depth(t)' # Depth(t) => stack'[t] # stack[t]]_vars

\* Two threads each inside their own outermost invocation at the same time.
C8_Witness ==
    \E t, u \in Threads :
        /\ t # u
        /\ stack[t] # <<>> /\ stack[u] # <<>>
        /\ IsOpen(Top(t)) /\ IsOpen(Top(u))
        /\ Top(t).stack_level = 1 /\ Top(u).stack_level = 1
        /\ Depth(t) = 1 /\ Depth(u) = 1

\* C9: nesting is LIFO.  While a nested invocation exists its parent's
\* context is open, the parent's entered record is in the log, and the
\* parent's exited record is not; in the log, the records of one thread
\* between an invocation's entered and exited record are deeper than it, and
\* every nested record comes after its parent's entered record.
C9_NestedAreLifo ==
    /\ \A t \in Threads : \A i \in DOMAIN stack[t] : \A j \in DOMAIN stack[t] :
          i < j =>
            /\ IsOpen(stack[t][i])
            /\ stack[t][j].entered => stack[t][j].stack_level > stack[t][i].stack_level
            /\ EnteredAt(stack[t][i].serial) # {}
            /\ ExitedAt(stack[t][i].serial) = {}
            /\ \A k \in DOMAIN log :
                  log[k].serial = stack[t][j].serial =>
                      \E e \in EnteredAt(stack[t][i].serial) : e < k
    /\ \A i \in DOMAIN log : \A j \in DOMAIN log :
          (i < j /\ log[i].kind = "entered" /\ log[j].kind = "exited"
                 /\ log[i].serial = log[j].serial) =>
            /\ log[i].thread = log[j].thread
            /\ \A k \in (i + 1)..(j - 1) :
                  log[k].thread = log[i].thread => log[k].indent > log[i].indent
    /\ \A k \in DOMAIN log :
          log[k].indent > 0 =>
            \E e \in 1..(k - 1) :
                /\ log[e].kind = "entered"
                /\ log[e].thread = log[k].thread
                /\ log[e].indent = log[k].indent - 1
                /\ \A x \in ExitedAt(log[e].serial) : x > k

\* Parent entered, child entered, child exited, parent exited, on one thread.
C9_Witness ==
    \E t \in Threads :
        /\ Len(log) = 4
        /\ \A k \in 1..4 : log[k].thread = t
        /\ log[1].kind = "entered" /\ log[2].kind = "entered"
        /\ log[3].kind = "exited" /\ log[4].kind = "exited"
        /\ log[1].serial = log[4].serial /\ log[2].serial = log[3].serial
        /\ log[1].serial # log[2].serial
        /\ log[2].indent = 1 /\ log[3].indent = 1

\* C10: a failure raised by rendering a value (ReprFailure) never leaves
\* __call__, unless it is what the target itself raised.
C10_FormattingFailuresContained ==
    \A f \in AllFrames :
        (f.pc = "done" /\ f.out = Raised("ReprFailure")) => f.tgt = Raised("ReprFailure")

\* C20: when the target of an invocation raised an ordinary failure (the sink
\* having taken every record), then by the time __call__ hands the failure
\* to its caller the context is closed, a failure-shaped exited record of
\* the invocation is in the log after every record of the invocations
\* nested in it, and what is handed on is the same failure.
C20_FailureLoggedThenPropagated ==
    \A t \in Threads : \A i \in DOMAIN stack[t] :
        LET f == stack[t][i] IN
        (f.pc = "done" /\ f.tgt.kind = "raised" /\ IsException(f.tgt.val)
                       /\ ~SinkFailed(f)) =>
            /\ f.exited
            /\ f.out = f.tgt
            /\ \E j \in ExitedAt(f.serial) :
                  /\ log[j].shape = "raised"
                  /\ \A k \in DOMAIN log :
                        (log[k].thread = t /\ log[k].serial > f.serial) => k < j


\* C22: two records with one serial id are the entered and then the exited
\* record of one invocation: same thread, same indent; every record of an
\* invocation carries the invocation's thread and the level set at entry
\* minus 1 as indent; and no two invocations share a serial id.
C22_PairMatchedBySerial ==
    /\ \A i \in DOMAIN log : \A j \in DOMAIN log :
          (i < j /\ log[i].serial = log[j].serial) =>
            /\ log[i].kind = "entered" /\ log[j].kind = "exited"
            /\ log[i].thread = log[j].thread
            /\ log[i].indent = log[j].indent
    /\ \A t \in Threads : \A i \in DOMAIN stack[t] : \A k \in DOMAIN log :
          log[k].serial = stack[t][i].serial =>
            /\ log[k].thread = t
            /\ log[k].indent = stack[t][i].stack_level - 1
    /\ \A t \in Threads : \A u \in Threads :
       \A i \in DOMAIN stack[t] : \A j \in DOMAIN stack[u] :
          (stack[t][i].serial # 0 /\ stack[t][i].serial = stack[u][j].serial) =>
              t = u /\ i = j

\* A nested invocation has both its records in the log, indented once.
C22_Witness ==
    \E i \in DOMAIN log : \E j \in DOMAIN log :
        /\ i < j
        /\ log[i].serial = log[j].serial
        /\ log[i].kind = "entered" /\ log[j].kind = "exited"
        /\ log[i].indent = 1 /\ log[j].indent = 1

\* C24: at every point of __call__, on every thread and at every depth, the
\* context is in the state the next step asserts: not entered when __enter__
\* is called, entered and not exited while the entered record is written and
\* the target runs and when __exit__ is called, entered and exited when the
\* exited record is written (stack_level and elapsed_time are read) and when
\* __call__ ends.
C24_AssertionsNeverFire ==
    \A f \in AllFrames :
        /\ f.pc \in {"acquire", "load", "store", "read", "release", "enter"} =>
              ~f.entered /\ ~f.exited
        /\ f.pc \in {"log_enter", "target", "exit"} => f.entered /\ ~f.exited
        /\ f.pc \in {"log_exit", "done"} => f.entered /\ f.exited

\* A nested invocation whose target failed is about to write its exited
\* record.
C24_Witness ==
    \E t \in Threads :
        /\ Len(stack[t]) = 2
        /\ Top(t).pc = "log_exit"
        /\ Top(t).out.kind = "raised"
        /\ stack[t][1].pc = "target"

\* C25 as stated: when writing the entered record failed, the invocation
\* ends with its context closed and a failure-shaped exited record in the
\* log.
C25_EnterFailureLogged ==
    \A f \in AllFrames :
        (f.pc = "done" /\ f.tgt = None /\ f.out.kind = "raised") =>
            /\ f.exited
            /\ \E j \in ExitedAt(f.serial) : log[j].shape = "raised"

\* C25, amended: when writing the entered record failed, the target is not
\* run, the entered record is not in the log, __exit__ closes the context and
\* restores the thread's depth, _log_exit is called with the failure, and
\* __call__ ends with a failure of the sink; the exited record is failure
\* shaped and reports the failure when the sink takes it, and there is none
\* when the sink fails again.
C25_EnterFailureHandled ==
    /\ [](\A t \in Threads :
            (stack[t] # <<>> /\ Top(t).tgt = None /\ Top(t).out.kind = "raised") =>
                /\ Top(t).out = Raised("SinkError")
                /\ Top(t).pc \in {"exit", "log_exit", "done"}
                /\ EnteredAt(Top(t).serial) = {}
                /\ Top(t).pc \in {"log_exit", "done"} =>
                      Top(t).exited /\ Depth(t) = Top(t).stack_level - 1
                /\ \A j \in ExitedAt(Top(t).serial) :
                      log[j].shape = "raised" /\ log[j].text = "repr:SinkError")
    /\ [][\A t \in Threads :
            (/\ stack[t] # <<>>
             /\ Top(t).tgt = None /\ Top(t).out.kind = "raised"
             /\ stack'[t] # stack[t]) =>
                /\ Top(t).pc = "exit" => Len(stack'[t]) = Len(stack[t]) /\ Top(t)'.pc = "log_exit"
                /\ Top(t).pc = "log_exit" =>
                      /\ Len(stack'[t]) = Len(stack[t])
                      /\ Top(t)'.pc = "done"
                      /\ Top(t)'.out = Raised("SinkError")
                      /\ \/ log' = log
                         \/ ExitedAt(Top(t).serial)' # {}]_vars

\* The sink refused the entered record and took the exited record: the
\* invocation ends with a failure-shaped exited record and no entered one.
C25_Witness ==
    \E t \in Threads :
        /\ stack[t] # <<>>
        /\ Top(t).pc = "done"
        /\ Top(t).tgt = None
        /\ Top(t).out = Raised("SinkError")
        /\ EnteredAt(Top(t).serial) = {}
        /\ \E j \in ExitedAt(Top(t).serial) : log[j].shape = "raised"

\* C26: when the target raised a failure that is not an ordinary error
\* (KeyboardInterrupt), __call__ ends with the context closed, the thread's
\* depth back at its value before the call, no exited record of the
\* invocation in the log, and the same failure handed to the caller.
C26_InterruptNotLogged ==
    \A t \in Threads : \A i \in DOMAIN stack[t] :
        LET f == stack[t][i] IN
        (f.pc = "done" /\ f.tgt = Raised("KeyboardInterrupt")) =>
            /\ f.entered /\ f.exited
            /\ Depth(t) = (IF i = 1 THEN 0 ELSE stack[t][i - 1].stack_level)
            /\ ExitedAt(f.serial) = {}
            /\ f.out = Raised("KeyboardInterrupt")

\* A nested invocation whose target raised KeyboardInterrupt has ended; its
\* entered record is in the log.
C26_Witness ==
    \E t \in Threads :
        /\ Len(stack[t]) = 2
        /\ Top(t).pc = "done"
        /\ Top(t).tgt = Raised("KeyboardInterrupt")
        /\ EnteredAt(Top(t).serial) # {}
        /\ Depth(t) = 1

(* ====================== operations on their own ======================== *)
(* The argument passing, binding, configuration and formatting code of the *)
(* wrapper, applied to one input at a time by thread 1.  SpecUnit records  *)
(* each application in `unit`; an application that invokes a wrapper runs  *)
(* the invocation step by step next to the invocations of other threads, a *)
(* pure helper leaves the state of the concurrent model alone.             *)
mainvars == <<serial_number, serial_number_lock, call_stack_level, stack, log, ncalls,
              issued, call_arg>>
\* Each operation is applied once, to a fresh input.
Idle == unit = NoUnit

(* ------------------------- argument passing ---------------------------- *)
\* A call shape: positional objects in order, then (name, object) pairs in
\* the order written.  "A", "B", "C" are distinct objects (test.py 37-39).
Shape(args, kwargs) == [args |-> args, kwargs |-> kwargs]
KwNames(kwargs) == {kwargs[i][1] : i \in DOMAIN kwargs}

CallShapes ==
    { Shape(<<"A", "B">>, << <<"c", "C">> >>),
      Shape(<<"A">>, << <<"b", "B">>, <<"c", "C">> >>),
      Shape(<<"A">>, << <<"c", "C">>, <<"b", "B">> >>),
      Shape(<<"A", "B", "C">>, <<>>),
      Shape(<<>>, << <<"a", "A">>, <<"b", "B">>, <<"c", "C">> >>),
      Shape(<<>>, <<>>),
      Shape(<<>>, << <<"x", "A">> >>),
      Shape(<<>>, << <<"self", "A">> >>),
      Shape(<<>>, << <<"cls", "A">> >>),
      Shape(<<>>, << <<"context", "A">> >>),
      Shape(<<"A">>, << <<"self", "B">> >>) }

\* A signature: positional-only names, positional-or-keyword names,
\* keyword-only names, and whether *args / **kwargs take the surplus.
Sig(posonly, poskw, kwonly, varargs, varkw) ==
    [posonly |-> posonly, poskw |-> poskw, kwonly |-> kwonly,
     varargs |-> varargs, varkw |-> varkw]

\* The targets of test.py: function_(a, /, b, *, c) (line 41), the lambda
\* a, b, c (line 52), and a target that takes any named arguments.
TargetSigs ==
    { Sig(<<"a">>, <<"b">>, {"c"}, FALSE, FALSE),
      Sig(<<>>, <<"a", "b", "c">>, {}, FALSE, FALSE),
      Sig(<<>>, <<>>, {}, FALSE, TRUE),
      Sig(<<>>, <<>>, {}, TRUE, TRUE) }

\* Python's binding of a call shape to a signature (no defaults): TRUE when
\* the call is accepted, FALSE when it raises TypeError.
Accepts(sig, args, kwargs) ==
    LET pos == sig.posonly \o sig.poskw
        npos == IF Len(args) < Len(pos) THEN Len(args) ELSE Len(pos)
        byPosition == {pos[i] : i \in 1..npos}
        byName == {n \in KwNames(kwargs) :
                      n \in {sig.poskw[i] : i \in DOMAIN sig.poskw} \cup sig.kwonly}
        required == {pos[i] : i \in DOMAIN pos} \cup sig.kwonly
    IN  /\ Len(args) > Len(pos) => sig.varargs
        /\ byName \cap byPosition = {}
        /\ KwNames(kwargs) \ byName # {} => sig.varkw
        /\ required \subseteq byPosition \cup byName

\* What a callable with this signature gets when called with the shape: the
\* same objects in the same order, or TypeError.
TargetBind(sig, args, kwargs) ==
    IF Accepts(sig, args, kwargs)
    THEN [kind |-> "received", args |-> args, kwargs |-> kwargs]
    ELSE Raised("TypeError")

\* The wrapper's own signatures on the way to the target.
\* def __call__(self, *args, **kwargs)                        (line 118)
CallSig == Sig(<<>>, <<"self">>, {}, TRUE, TRUE)
\* def _log_enter(self, context, /, *args, **kwargs)          (line 136)
LogEnterSig == Sig(<<"self", "context">>, <<>>, {}, TRUE, TRUE)
\* def _format_invocation_info(self, *args, **kwargs)         (line 177)
FormatInfoSig == Sig(<<>>, <<"self">>, {}, TRUE, TRUE)
\* def _format_invocation_argument(cls, *args, **kwargs)      (line 244)
FormatArgumentSig == Sig(<<>>, <<"cls">>, {}, TRUE, TRUE)

\* _CallableWrapper._format_qualified_name, for the code of a frame
format_qualified_name(frame) ==
    IF frame.module # "" THEN frame.module \o "." \o frame.func ELSE frame.func

\* str.join
RECURSIVE join(_, _)
join(separator, texts) ==
    IF texts = <<>> THEN ""
    ELSE IF Len(texts) = 1 THEN texts[1]
    ELSE texts[1] \o separator \o join(separator, Tail(texts))

\* A wrapped callable as the rendering sees it: its module and qualified
\* name, and the instance it is bound to when it is a bound method.
NoBinding == "(no binding)"
Callable(module, func, binding) == [module |-> module, func |-> func, binding |-> binding]
\* inspect.ismethod(self._callable)
ismethod(callable_) == callable_.binding # NoBinding

\* _CallableWrapper._format_invocation_argument(*args, **kwargs): the call
\* binds the arguments behind cls, then renders and joins them.
format_invocation_argument(args, kwargs) ==
    IF ~Accepts(FormatArgumentSig, <<"class">> \o args, kwargs) THEN Raised("TypeError")
    ELSE Returned(join(", ",
            [i \in 1..Len(args) |-> format_object(args[i])]
            \o [i \in 1..Len(kwargs) |-> kwargs[i][1] \o "=" \o format_object(kwargs[i][2])]))

\* _CallableWrapper._format_invocation_info(*args, **kwargs)
format_invocation_info(callable_, args, kwargs) ==
    IF ~Accepts(FormatInfoSig, <<"wrapper">> \o args, kwargs) THEN Raised("TypeError")
    ELSE LET args_ == IF ismethod(callable_) THEN <<callable_.binding>> \o args ELSE args
             arguments == format_invocation_argument(args_, kwargs)
         IN  IF arguments.kind = "raised" THEN arguments
             ELSE Returned(format_qualified_name(callable_) \o "(" \o arguments.val \o ")")

\* C11: a call the target accepts reaches the target through the wrapper with
\* the same positional objects in the same order and the same named objects
\* in the same order; a call the target rejects with TypeError is rejected
\* with TypeError through the wrapper.
C11_ArgumentsPassedAsIs ==
    unit.op = "invoke" /\ unit.wrapped # [kind |-> "pending"] =>
        /\ unit.direct.kind = "received" =>
              unit.wrapped = [kind |-> "received", args |-> unit.args,
                              kwargs |-> unit.kwargs]
        /\ unit.direct = Raised("TypeError") => unit.wrapped = Raised("TypeError")

(* --------------------------- construction ------------------------------ *)
\* A Python object given as configuration: its type and its value as text.
StrObj(s) == [type |-> "str", v |-> s]
IntObj(s) == [type |-> "int", v |-> s]
BoolObj(s) == [type |-> "bool", v |-> s]
FloatObj(s) == [type |-> "float", v |-> s]
NoneObj == [type |-> "NoneType", v |-> "None"]
\* isinstance(x, str) / isinstance(x, int): bool is a subclass of int.
IsInstance(x, type) ==
    \/ x.type = type
    \/ type = "int" /\ x.type = "bool"

\* A keyword argument left out of the call.
Missing == [type |-> "missing", v |-> ""]
\* logger_name: str = __name__, level: int = logging.DEBUG
DefaultLoggerName == StrObj("log_call")
DefaultLevel == IntObj("10")
WithDefault(x, default) == IF x = Missing THEN default ELSE x

\* {x!r} of a configuration object: a str is quoted.
ReprObj(x) == IF x.type = "str" THEN "'" \o x.v \o "'" ELSE x.v

\* The failed assertions of __init__, with their messages.
AssertionFailure(parameter, type, given) ==
    [kind |-> "raised", val |-> "AssertionError",
     msg |-> "Keyword argument '" \o parameter \o "' must be " \o type
             \o ", not " \o ReprObj(given) \o "."]

\* A constructor that keeps whatever configuration it is given.
CallableWrapperUnchecked(callable_, logger_name, level) ==
    [kind |-> "wrapper", callable |-> callable_,
     logger_name |-> logger_name, log_level |-> level]

\* _CallableWrapper(callable_, logger_name=..., level=...)
CallableWrapper(callable_, logger_name, level) ==
    IF ~IsInstance(logger_name, "str")
    THEN AssertionFailure("logger_name", "a str", logger_name)
    ELSE IF ~IsInstance(level, "int")
    THEN AssertionFailure("level", "an int", level)
    ELSE [kind |-> "wrapper", callable |-> callable_,
          logger_name |-> logger_name, log_level |-> level]

\* log_call(callable_=None, /, *, logger_name=__name__, level=logging.DEBUG)
NoCallable == [kind |-> "none"]
log_call(callable_, logger_name, level) ==
    LET n == WithDefault(logger_name, DefaultLoggerName)
        l == WithDefault(level, DefaultLevel)
    IN  IF callable_ = NoCallable
        THEN [kind |-> "partial", logger_name |-> n, level |-> l]
        ELSE CallableWrapper(callable_, n, l)

\* A decorator factory that forgets its configuration.
ApplyPartialDefaults(partial, callable_) ==
    log_call(callable_, Missing, Missing)

\* functools.partial(log_call, logger_name=..., level=...)(callable_)
ApplyPartial(partial, callable_) ==
    log_call(callable_, partial.logger_name, partial.level)

(* ------------------------------ binding -------------------------------- *)
\* Methods as the tests declare them, (self, a, /, b, *, c), and a method
\* that takes any named arguments, (self, **kwargs).
MethodSigs ==
    { Sig(<<"self", "a">>, <<"b">>, {"c"}, FALSE, FALSE),
      Sig(<<>>, <<"self">>, {}, FALSE, TRUE) }

NoInstance == "None"
Instances == {"foo", "fooo"}

\* types.MethodType(func, instance)
MethodType(func, instance) == [kind |-> "method", func |-> func, self |-> instance]

\* _CallableWrapper.__get__(self, instance, owner)
Get(wrapper, instance) ==
    IF instance = NoInstance THEN wrapper
    ELSE MethodType(wrapper, instance)

\* C12: through an instance the lookup gives a bound callable over the one
\* wrapper, and every call of it the target would accept reaches the target
\* with the instance first and the caller's arguments after it; through the
\* class the lookup gives the wrapper itself and nothing is put in front.
C12_BoundCallSuppliesInstance ==
    unit.op = "attribute" =>
        /\ unit.instance = NoInstance => unit.attr = unit.wrapper
        /\ unit.instance # NoInstance =>
              unit.attr = [kind |-> "method", func |-> unit.wrapper,
                           self |-> unit.instance]
        /\ unit.direct.kind = "received" /\ unit.wrapped # [kind |-> "pending"] =>
              unit.wrapped =
                  [kind |-> "received",
                   args |-> (IF unit.instance = NoInstance THEN <<>>
                             ELSE <<unit.instance>>) \o unit.args,
                   kwargs |-> unit.kwargs]

(* --------------------- configuration and emission ---------------------- *)
\* logging.getLogger(name): the empty name and "root" are the root logger,
\* whose name is "root" (test.py line 205).
getLogger(name) ==
    [name |-> IF name.v = "" \/ name.v = "root" THEN "root" ELSE name.v]

\* _CallableWrapper._logger
logger(wrapper) == getLogger(wrapper.logger_name)

\* self._logger.log(level=self._log_level, ...): the record's logger name
\* and severity.
Logged(wrapper, kind) ==
    [kind |-> kind, name |-> logger(wrapper).name, levelno |-> wrapper.log_level.v]

\* The three ways to construct a wrapper: @log_call, @log_call(...), and
\* log_call(target, ...).
Forms == {"bare", "configured", "direct"}
LoggerNameArgs ==
    {Missing, StrObj("root"), StrObj("package.module"), StrObj(""), IntObj("1"), NoneObj}
LevelArgs ==
    {Missing, IntObj("10"), IntObj("20"), IntObj("30"), IntObj("40"), IntObj("50"),
     BoolObj("True"), StrObj("10"), FloatObj("1.5"), NoneObj}
do_nothing == Sig(<<>>, <<>>, {}, FALSE, FALSE)

Build(form, logger_name, level) ==
    IF form = "configured"
    THEN ApplyPartial(log_call(NoCallable, logger_name, level), do_nothing)
    ELSE log_call(do_nothing, logger_name, level)

\* C13: the entered and the exited record of an invocation carry the logger
\* name and the severity the wrapper was constructed with, in every form; a
\* name or level left out is "log_call" (the module's name) or 10 (DEBUG).
\* The empty name designates the root logger, whose records are named "root".
C13_RecordsCarryConfiguration ==
    unit.op = "construct" /\ unit.built.kind = "wrapper" =>
        LET X == IF unit.logger_name = Missing THEN "log_call" ELSE unit.logger_name.v
            L == IF unit.level = Missing THEN "10" ELSE unit.level.v
            mine == SelectSeq(log, LAMBDA r : r.thread = 1)
        IN  /\ \A i \in DOMAIN unit.records :
                /\ unit.records[i].name = (IF X = "" THEN "root" ELSE X)
                /\ unit.records[i].levelno = L
            /\ Len(mine) = Len(unit.records)
            /\ \A i \in DOMAIN mine : mine[i].kind = unit.records[i].kind
            /\ stack[1] = <<>> =>
                /\ Len(unit.records) = 2
                /\ unit.records[1].kind = "entered"
                /\ unit.records[2].kind = "exited"

\* A configured decorator with a name and a level of its own was applied
\* and the wrapper invoked.
C13_Witness ==
    /\ unit.op = "construct"
    /\ unit.form = "configured"
    /\ unit.logger_name = StrObj("package.module")
    /\ unit.level = IntObj("30")
    /\ stack[1] = <<>>
    /\ Len(unit.records) = 2
    /\ Len(log) > 2

\* C14: with a logger name that is not a str, or a level that is not an int,
\* construction ends in an AssertionError whose message names the argument
\* and the value, in every form; nothing is invoked and nothing is logged,
\* and a wrapper that exists holds a str name and an int level.
C14_InvalidConfigurationRejected ==
    unit.op = "construct" =>
        LET badName == unit.logger_name # Missing /\ unit.logger_name.type # "str"
            badLevel == unit.level # Missing /\ unit.level.type \notin {"int", "bool"}
        IN  /\ badName =>
                unit.built =
                    [kind |-> "raised", val |-> "AssertionError",
                     msg |-> "Keyword argument 'logger_name' must be a str, not "
                             \o unit.logger_name.v \o "."]
            /\ ~badName /\ badLevel =>
                unit.built =
                    [kind |-> "raised", val |-> "AssertionError",
                     msg |-> "Keyword argument 'level' must be an int, not "
                             \o (IF unit.level.type = "str" THEN "'10'" ELSE unit.level.v)
                             \o "."]
            /\ badName \/ badLevel =>
                /\ ~unit.invoked
                /\ unit.records = <<>>
                /\ log = <<>>
                /\ serial_number = 0
            /\ unit.built.kind = "wrapper" =>
                /\ unit.built.logger_name.type = "str"
                /\ unit.built.log_level.type \in {"int", "bool"}

\* A configured decorator given a logger name that is not a str was applied.
C14_Witness ==
    /\ unit.op = "construct"
    /\ unit.form = "configured"
    /\ unit.logger_name = IntObj("1")
    /\ unit.built.kind = "raised"
    /\ log = <<>>

(* -------------------------- caller attribution ------------------------- *)
\* A frame of the call stack: the module of its code and its function.
Frame(module, func) == [module |-> module, func |-> func]
\* Logger.log -> Logger._log -> Logger.findCaller, innermost first.
LoggingFrames ==
    <<Frame("logging", "findCaller"), Frame("logging", "_log"), Frame("logging", "log")>>
\* logging._is_internal_frame
IsInternalFrame(frame) == frame.module = "logging"

\* Logger.findCaller(stacklevel): from its own frame, step outwards until
\* `stacklevel` frames outside logging have been passed, or the stack ends.
RECURSIVE findCallerFrom(_, _, _)
findCallerFrom(frames, i, level) ==
    IF level = 0 \/ i = Len(frames) THEN frames[i]
    ELSE findCallerFrom(frames, i + 1,
                        IF IsInternalFrame(frames[i + 1]) THEN level ELSE level - 1)
findCaller(frames, level) == findCallerFrom(frames, 1, level)

\* stacklevel=3 of _log_enter and _log_exit
stacklevel == 3

\* Wrapped routines calling each other: main calls the wrapper of f1, f1
\* calls the wrapper of f2, and so on.  A wrapper may wrap another wrapper
\* (log_call applied twice); the outer __call__ then calls the inner one.
MaxNesting == 2
TargetNames == <<"f1", "f2", "f3", "f4">>
WrapperFrames(double) ==
    IF double THEN <<Frame("log_call", "__call__"), Frame("log_call", "__call__")>>
    ELSE <<Frame("log_call", "__call__")>>
RECURSIVE CallersOf(_, _)
CallersOf(depth, stacked) ==
    IF depth = 1 THEN <<Frame("test", "main")>>
    ELSE <<Frame("test", TargetNames[depth - 1])>>
         \o WrapperFrames((depth - 1) \in stacked)
         \o CallersOf(depth - 1, stacked)

\* The frames below the __call__ of the wrapper that logs: for the inner
\* wrapper of a pair, the outer wrapper's __call__ comes first.  A call
\* through a bound variant (types.MethodType) adds no Python frame.
FramesBelow(depth, stacked, emitter) ==
    (IF emitter = "inner" THEN <<Frame("log_call", "__call__")>> ELSE <<>>)
    \o CallersOf(depth, stacked)

\* C15: the entered and the exited record of a wrapper are attributed to the
\* frame that called the wrapper, which is a frame of neither the wrapper's
\* module nor the logging module, at every nesting level and through a
\* bound variant.
C15_AttributedToCaller ==
    unit.op = "caller" =>
        \A k \in DOMAIN unit.records :
            /\ unit.records[k].record = unit.records[k].below[1]
            /\ unit.records[k].record.module \notin {"log_call", "logging"}

(* ------------------- whole invocations, step by step ------------------- *)
(* Thread 1 applies one operation that invokes a wrapper.  The call is one *)
(* step; the invocation then runs through the steps of __call__, one at a  *)
(* time, while the other threads invoke wrappers of their own.  `unit`     *)
(* keeps the invocations the application makes (outermost first), how many *)
(* of them have been called, what the innermost target received, and what  *)
(* each record handed to the sink carried.                                 *)

\* One invocation: the wrapper, its target as the rendering and the binding
\* see it, the arguments of the call, and the frames below its __call__.
Invocation(wrapper, callable_, sig, args, kwargs, below) ==
    [wrapper |-> wrapper, callable |-> callable_, sig |-> sig,
     args |-> args, kwargs |-> kwargs, below |-> below]

\* The target has not been reached yet.
Pending == [kind |-> "pending"]

\* def __call__(self, *args, **kwargs): the call binds the arguments behind
\* self; a named argument `self` is rejected with TypeError before the body.
Called(args, kwargs) == Accepts(CallSig, <<"wrapper">> \o args, kwargs)

\* The outcome known when the call is made: TypeError of the call itself,
\* or nothing yet.
AtCall(args, kwargs) == IF Called(args, kwargs) THEN Pending ELSE Raised("TypeError")

\* Thread 1 calls the first wrapper of `chain`; with no wrapper to call, or a
\* call that __call__ rejects, nothing starts.
Begin(chain) ==
    /\ IF chain = <<>>
       THEN UNCHANGED <<stack, ncalls>>
       ELSE /\ stack' = [stack EXCEPT ![1] = Append(@, NewFrame(call_arg))]
            /\ ncalls' = ncalls + 1
    /\ UNCHANGED <<serial_number, serial_number_lock, call_stack_level, log, issued,
                   call_arg>>

\* One call of a target, directly and through its wrapper.
InvokeWithArguments ==
    /\ Idle
    /\ \E sig \in TargetSigs : \E sh \in CallShapes :
        LET chain == IF Called(sh.args, sh.kwargs)
                     THEN <<Invocation(log_call(sig, Missing, Missing),
                                       Callable("test", "function_", NoBinding), sig,
                                       sh.args, sh.kwargs, <<Frame("test", "main")>>)>>
                     ELSE <<>>
        IN  /\ unit' = [op |-> "invoke", sig |-> sig, args |-> sh.args,
                        kwargs |-> sh.kwargs,
                        direct |-> TargetBind(sig, sh.args, sh.kwargs),
                        wrapped |-> AtCall(sh.args, sh.kwargs),
                        chain |-> chain, called |-> Len(chain), records |-> <<>>]
            /\ Begin(chain)

\* Calling what the attribute lookup gave: a bound method calls its function
\* with the instance in front.
AttributeArgs(attr, args) == IF attr.kind = "method" THEN <<attr.self>> \o args ELSE args
\* The wrapper the call ends up in.
AttributeWrapper(attr) == IF attr.kind = "method" THEN attr.func ELSE attr

\* Looking the wrapper up on an instance or on the class and calling the
\* result, next to the same call of the unwrapped function.
CallThroughAttribute ==
    /\ Idle
    /\ \E sig \in MethodSigs : \E instance \in Instances \cup {NoInstance} :
       \E sh \in CallShapes :
        LET wrapper == log_call(sig, Missing, Missing)
            attr == Get(wrapper, instance)
            leading == IF instance = NoInstance THEN <<>> ELSE <<instance>>
            args == AttributeArgs(attr, sh.args)
            chain == IF Called(args, sh.kwargs)
                     THEN <<Invocation(AttributeWrapper(attr),
                                       Callable("test", "Foo.do_nothing", NoBinding),
                                       AttributeWrapper(attr).callable,
                                       args, sh.kwargs, <<Frame("test", "main")>>)>>
                     ELSE <<>>
        IN  /\ unit' = [op |-> "attribute", wrapper |-> wrapper, instance |-> instance,
                        attr |-> attr, args |-> sh.args, kwargs |-> sh.kwargs,
                        direct |-> TargetBind(sig, leading \o sh.args, sh.kwargs),
                        wrapped |-> AtCall(args, sh.kwargs),
                        chain |-> chain, called |-> Len(chain), records |-> <<>>]
            /\ Begin(chain)

\* Constructing a wrapper in one of the three forms and, when there is a
\* wrapper, calling it.
Construct ==
    /\ Idle
    /\ \E form \in Forms : \E logger_name \in LoggerNameArgs : \E level \in LevelArgs :
        /\ form = "bare" => logger_name = Missing /\ level = Missing
        /\ LET built == Build(form, logger_name, level)
               chain == IF built.kind = "wrapper"
                        THEN <<Invocation(built, Callable("test", "do_nothing", NoBinding),
                                          do_nothing, <<>>, <<>>,
                                          <<Frame("test", "main")>>)>>
                        ELSE <<>>
           IN  /\ unit' = [op |-> "construct", form |-> form, logger_name |-> logger_name,
                           level |-> level, built |-> built,
                           invoked |-> built.kind = "wrapper",
                           wrapped |-> IF built.kind = "wrapper" THEN Pending ELSE built,
                           chain |-> chain, called |-> Len(chain), records |-> <<>>]
               /\ Begin(chain)

\* The wrappers a chain of `depth` nested routines invokes, outermost
\* first: one for each routine, and a second one where log_call was applied
\* twice.
RECURSIVE WrapperChain(_, _, _)
WrapperChain(i, depth, stacked) ==
    IF i > depth THEN <<>>
    ELSE <<[level |-> i, emitter |-> "outer"]>>
         \o (IF i \in stacked THEN <<[level |-> i, emitter |-> "inner"]>> ELSE <<>>)
         \o WrapperChain(i + 1, depth, stacked)

\* What a wrapper of the chain calls at line 124: another wrapper, which
\* takes any arguments, or the routine, which takes the instance when it is
\* called through a bound variant and nothing otherwise.
ChainSig(w, stacked, via) ==
    IF w.emitter = "outer" /\ w.level \in stacked THEN Sig(<<>>, <<>>, {}, TRUE, TRUE)
    ELSE IF via = "bound" THEN Sig(<<>>, <<"self">>, {}, FALSE, FALSE)
    ELSE do_nothing

\* main calls the wrapper of f1, f1 the wrapper of f2, and so on down to
\* `depth`, each routine returning None.
AttributeCaller ==
    /\ Idle
    /\ \E depth \in 1..MaxNesting : \E stacked \in SUBSET (1..depth) :
       \E via \in {"plain", "bound"} :
        LET links == WrapperChain(1, depth, stacked)
            args == IF via = "bound" THEN <<"foo">> ELSE <<>>
            chain == [k \in 1..Len(links) |->
                         Invocation(log_call(ChainSig(links[k], stacked, via),
                                             Missing, Missing),
                                    Callable("test", TargetNames[links[k].level],
                                             NoBinding),
                                    ChainSig(links[k], stacked, via), args, <<>>,
                                    FramesBelow(links[k].level, stacked,
                                                links[k].emitter))]
        IN  /\ unit' = [op |-> "caller", depth |-> depth, stacked |-> stacked,
                        via |-> via, wrapped |-> Pending,
                        chain |-> chain, called |-> 1, records |-> <<>>]
            /\ Begin(chain)

\* self._logger.log(..., stacklevel=3) called from `helper`, itself called
\* from __call__: the frame the sink attributes the record to.
Attributed(helper, below) ==
    findCaller(LoggingFrames
               \o <<Frame("log_call", helper), Frame("log_call", "__call__")>>
               \o below,
               stacklevel)

\* What a record of invocation w carries besides its message: the logger's
\* name, the severity, and the caller the sink finds.
Emitted(kind, helper, f, w) ==
    [kind |-> kind, serial |-> f.serial,
     name |-> Logged(w.wrapper, kind).name, levelno |-> Logged(w.wrapper, kind).levelno,
     below |-> w.below, record |-> Attributed(helper, w.below)]

\* The invocation thread 1 is in: the innermost one called.
Current == unit.chain[Len(stack[1])]

\* _log_enter of thread 1 (lines 136-149), on a sink that takes the record:
\* the invocation is rendered first, and a TypeError of the rendering leaves
\* the with block before the record and before the target.
UnitLogEnter ==
    /\ stack[1] # <<>>
    /\ Top(1).pc = "log_enter"
    /\ Top(1).entered                        \* assert self._entered
    /\ LET info == format_invocation_info(Current.callable, Current.args, Current.kwargs)
       IN  IF info.kind = "raised"
           THEN /\ stack' = SetTop(1, [Top(1) EXCEPT !.pc = "exit", !.out = info])
                /\ unit' = [unit EXCEPT !.wrapped = info]
                /\ UNCHANGED log
           ELSE /\ log' = Append(log, [EnteredRecord(1, Top(1)) EXCEPT !.text = info.val])
                /\ stack' = SetTop(1, [Top(1) EXCEPT !.pc = "target"])
                /\ unit' = [unit EXCEPT !.records =
                               Append(@, Emitted("entered", "_log_enter", Top(1), Current))]
    /\ UNCHANGED <<serial_number, serial_number_lock, call_stack_level, ncalls, issued,
                   call_arg>>

\* What the target hands back to line 124: the targets of the tests return
\* None, and a target that rejects the call raises TypeError.
TargetResult(bound) == IF bound.kind = "received" THEN Returned("None") ELSE bound

\* returned = self._callable(*args, **kwargs) of thread 1: a routine of the
\* chain calls the next wrapper, and returns once that call is over; the
\* innermost target is bound to the arguments of the call.
UnitTarget ==
    /\ stack[1] # <<>>
    /\ Top(1).pc = "target"
    /\ LET d == Len(stack[1])
           bound == TargetBind(Current.sig, Current.args, Current.kwargs)
       IN  IF d < Len(unit.chain) /\ unit.called = d
           THEN /\ stack' = [stack EXCEPT ![1] = Append(@, NewFrame(call_arg))]
                /\ ncalls' = ncalls + 1
                /\ unit' = [unit EXCEPT !.called = d + 1]
           ELSE /\ stack' = SetTop(1, [Top(1) EXCEPT !.pc = "exit",
                                                     !.tgt = TargetResult(bound),
                                                     !.out = TargetResult(bound)])
                /\ unit' = IF d = Len(unit.chain) THEN [unit EXCEPT !.wrapped = bound]
                           ELSE unit
                /\ UNCHANGED ncalls
    /\ UNCHANGED <<serial_number, serial_number_lock, call_stack_level, log, issued,
                   call_arg>>

\* _log_exit of thread 1 (lines 156-176), on a sink that takes the record.
UnitLogExit ==
    /\ stack[1] # <<>>
    /\ Top(1).pc = "log_exit"
    /\ Top(1).entered                        \* assert self._entered
    /\ Top(1).exited                         \* assert self._exited
    /\ LET r == Repr(Top(1).out.val)
       IN  IF r.kind = "raised"
           THEN /\ stack' = SetTop(1, [Top(1) EXCEPT !.pc = "done", !.out = r])
                /\ UNCHANGED <<log, unit>>
           ELSE /\ log' = Append(log, ExitedRecord(1, Top(1), r.val))
                /\ stack' = SetTop(1, [Top(1) EXCEPT !.pc = "done"])
                /\ unit' = [unit EXCEPT !.records =
                               Append(@, Emitted("exited", "_log_exit", Top(1), Current))]
    /\ UNCHANGED <<serial_number, serial_number_lock, call_stack_level, ncalls, issued,
                   call_arg>>

\* Another thread invokes a wrapper of its own while thread 1 is in its
\* invocation.
OtherCall(t) ==
    /\ t # 1
    /\ stack[1] # <<>>
    /\ Call(t)

\* The other threads run log_call(lambda: None)() on a sink that takes
\* their records: the steps of Spec, with that outcome.
OtherLogEnter(t) ==
    /\ t # 1
    /\ LogEnter(t)
    /\ Top(t)'.pc = "target"

OtherTarget(t) ==
    /\ t # 1
    /\ TargetReturns(t)
    /\ Top(t)'.tgt = Returned("Falsy")

OtherLogExit(t) ==
    /\ t # 1
    /\ LogExit(t)
    /\ Top(t)'.out = Top(t).out

\* The steps of __call__ that are the same for every thread.
CommonStep(t) ==
    \/ Acquire(t)
    \/ Load(t)
    \/ Store(t)
    \/ Read(t)
    \/ Release(t)
    \/ Enter(t)
    \/ Exit(t)
    \/ Return(t)

(* ---------------------------- elapsed time ----------------------------- *)
\* Decimal rendering of a natural number, and the format specs :02 and :06.
Digits == <<"0", "1", "2", "3", "4", "5", "6", "7", "8", "9">>
RECURSIVE Dec(_)
Dec(n) == IF n < 10 THEN Digits[n + 1] ELSE Dec(n \div 10) \o Digits[(n % 10) + 1]
RECURSIVE ZeroPad(_, _)
ZeroPad(text, width) == IF Len(text) >= width THEN text ELSE ZeroPad("0" \o text, width)
Pad2(n) == ZeroPad(Dec(n), 2)
Pad6(n) == ZeroPad(Dec(n), 6)

\* datetime.timedelta(days, seconds, microseconds), normalised: seconds
\* below 86400 and microseconds below 1000000.
timedelta(days, seconds, microseconds) ==
    [days |-> days, seconds |-> seconds, microseconds |-> microseconds]

\* str(timedelta): "[D day[s], ]H:MM:SS[.UUUUUU]"
timedelta_str(d) ==
    (IF d.days = 0 THEN ""
     ELSE Dec(d.days) \o (IF d.days = 1 THEN " day, " ELSE " days, "))
    \o Dec(d.seconds \div 3600) \o ":" \o Pad2((d.seconds \div 60) % 60)
    \o ":" \o Pad2(d.seconds % 60)
    \o (IF d.microseconds = 0 THEN "" ELSE "." \o Pad6(d.microseconds))

\* _CallableWrapper._format_elapsed_time
format_elapsed_time(elapsed_time) ==
    IF elapsed_time.days > 0 THEN timedelta_str(elapsed_time)
    ELSE IF elapsed_time.seconds < 60
    THEN "00:" \o Pad2(elapsed_time.seconds) \o "." \o Pad6(elapsed_time.microseconds)
    ELSE LET minutes == elapsed_time.seconds \div 60
             seconds == elapsed_time.seconds % 60
         IN  IF minutes <= 60 THEN Pad2(minutes) \o ":" \o Pad2(seconds)
             ELSE Dec(minutes \div 60) \o ":" \o Pad2(minutes % 60) \o ":" \o Pad2(seconds)

ElapsedDays == {0, 1, 2}
ElapsedSeconds == {0, 1, 59, 60, 61, 599, 3599, 3600, 3601, 3659, 3660, 7325, 86399}
ElapsedMicroseconds == {0, 5, 123456, 999999}

FormatElapsed ==
    /\ Idle
    /\ \E days \in ElapsedDays : \E seconds \in ElapsedSeconds :
       \E microseconds \in ElapsedMicroseconds :
        LET d == timedelta(days, seconds, microseconds)
        IN  unit' = [op |-> "elapsed", arg |-> d, out |-> format_elapsed_time(d)]
    /\ UNCHANGED mainvars

\* C17: a duration of no whole day is rendered MM:SS.UUUUUU when it is under
\* an hour and H:MM:SS, minutes and seconds below 60, from one hour on; a
\* duration of whole days is rendered as str() of the duration.
C17_ElapsedTimeForms ==
    unit.op = "elapsed" =>
        LET d == unit.arg
        IN  /\ d.days = 0 /\ d.seconds < 3600 =>
                unit.out = Pad2(d.seconds \div 60) \o ":" \o Pad2(d.seconds % 60)
                           \o "." \o Pad6(d.microseconds)
            /\ d.days = 0 /\ d.seconds >= 3600 =>
                unit.out = Dec(d.seconds \div 3600) \o ":" \o Pad2((d.seconds \div 60) % 60)
                           \o ":" \o Pad2(d.seconds % 60)
            /\ d.days > 0 => unit.out = timedelta_str(d)

(* -------------------------- one-line call stack ------------------------ *)
\* A frame with its line number; the module is "" when inspect.getmodule
\* finds none for the frame's code.
FrameAt(module, func, lineno) == [module |-> module, func |-> func, lineno |-> lineno]
MaxFrames == 3
StackFrames ==
    { FrameAt("log_call", "_CallableWrapper.__call__", 124),
      FrameAt("test", "f", 10),
      FrameAt("test", "g", 20),
      FrameAt("", "<lambda>", 1) }
\* A stack snapshot: a frame and its f_back chain, most recent first; the
\* empty sequence is frame = None.
Snapshots == UNION {[1..n -> StackFrames] : n \in 0..MaxFrames}

\* A filter that lets every frame through.
is_code_in_no_module(frame) == FALSE

\* _CallableWrapper._is_code_in_this_module
is_code_in_this_module(frame) == frame.module # "" /\ frame.module = "log_call"

\* _CallableWrapper._iterate_frames: the positions, from the top, of the
\* frames whose code is not in this module.
iterate_frames(frames) ==
    SelectSeq([i \in 1..Len(frames) |-> i], LAMBDA i : ~is_code_in_this_module(frames[i]))

\* _CallableWrapper._format_caller: the first frame that passes the filter
format_caller(frames) ==
    LET passed == iterate_frames(frames)
    IN  IF passed = <<>> THEN "(unknown caller)"
        ELSE format_qualified_name(frames[passed[1]]) \o ":" \o Dec(frames[passed[1]].lineno)

\* _CallableWrapper._format_one_line_call_stack
format_one_line_call_stack(frames) ==
    LET passed == iterate_frames(frames)
        result == join(" <- ", [k \in 1..Len(passed) |->
                                   format_caller(SubSeq(frames, passed[k], Len(frames)))])
    IN  IF result # "" THEN result ELSE "(unknown stack)"

FormatStack ==
    /\ Idle
    /\ \E frames \in Snapshots :
        unit' = [op |-> "stack", arg |-> frames, out |-> format_one_line_call_stack(frames)]
    /\ UNCHANGED mainvars

\* The chain the snapshot should give: its frames from outside the
\* instrumentation module, top first.
RECURSIVE ExpectedChain(_)
ExpectedChain(frames) ==
    IF frames = <<>> THEN <<>>
    ELSE (IF Head(frames).module = "log_call" THEN <<>>
          ELSE <<(IF Head(frames).module = "" THEN "" ELSE Head(frames).module \o ".")
                 \o Head(frames).func \o ":" \o Dec(Head(frames).lineno)>>)
         \o ExpectedChain(Tail(frames))

\* C18: the one-line stack of a snapshot is the rendering of each of its
\* frames from outside the instrumentation module, once per frame, most
\* recent first, joined by " <- ", and "(unknown stack)" when there is none.
C18_OneLineStack ==
    unit.op = "stack" =>
        LET chain == ExpectedChain(unit.arg)
        IN  unit.out = IF chain = <<>> THEN "(unknown stack)" ELSE join(" <- ", chain)

\* A snapshot of nested instrumentation: a target, the wrapper's frame, and
\* the caller.
C18_Witness ==
    /\ unit.op = "stack"
    /\ unit.arg = <<FrameAt("test", "f", 10),
                    FrameAt("log_call", "_CallableWrapper.__call__", 124),
                    FrameAt("test", "g", 20)>>
    /\ unit.out = "test.f:10 <- test.g:20"

(* --------------------------- object rendering -------------------------- *)
\* The renderings _format_object calls, in the order it calls them: each
\* try block is entered only when the one before it ended in `except`.
format_object_attempts(x) ==
    IF Repr(x).kind = "returned" THEN <<"repr">>
    ELSE IF Str(x).kind = "returned" THEN <<"repr", "str">>
    ELSE <<"repr", "str", "type">>

FormatObject ==
    /\ Idle
    /\ \E x \in Values :
        unit' = [op |-> "format", arg |-> x, out |-> format_object(x),
                 attempts |-> format_object_attempts(x)]
    /\ UNCHANGED mainvars

\* C19: the rendering of a value is its repr() when that succeeds, else its
\* str() when that succeeds, else "(<type> instance)"; str() is attempted
\* only after repr() failed and the type name is used only after both
\* failed; a value whose renderings raise still gets a text.
C19_ThreeTierFallback ==
    unit.op = "format" =>
        LET x == unit.arg
            reprOk == x \notin {"BadRepr", "BadBoth"}
            strOk == x # "BadBoth"
        IN  /\ reprOk => unit.out = "repr:" \o x /\ unit.attempts = <<"repr">>
            /\ ~reprOk /\ strOk =>
                  unit.out = "str:" \o x /\ unit.attempts = <<"repr", "str">>
            /\ ~reprOk /\ ~strOk =>
                  unit.out = "(" \o x \o " instance)"
                  /\ unit.attempts = <<"repr", "str", "type">>

\* A value whose repr() and str() both raise was rendered.
C19_Witness ==
    /\ unit.op = "format"
    /\ unit.arg = "BadBoth"
    /\ unit.out = "(BadBoth instance)"

(* ------------------------- invocation rendering ------------------------ *)
InfoCallables == {Callable("test", "add", NoBinding), Callable("test", "Foo.add", "BadRepr")}
InfoArgs == UNION {[1..n -> ArgValues] : n \in 0..2}
InfoKwargs ==
    { <<>>,
      << <<"b", "Falsy">> >>,
      << <<"b", "Falsy">>, <<"c", "BadBoth">> >>,
      << <<"c", "BadBoth">>, <<"b", "Falsy">> >>,
      << <<"cls", "Falsy">> >> }

FormatInvocation ==
    /\ Idle
    /\ \E callable_ \in InfoCallables : \E args \in InfoArgs : \E kwargs \in InfoKwargs :
        unit' = [op |-> "invocation", callable |-> callable_, args |-> args,
                 kwargs |-> kwargs,
                 out |-> format_invocation_info(callable_, args, kwargs)]
    /\ UNCHANGED mainvars

\* The renderings of the positional arguments, then of the named ones.
RECURSIVE ExpectedPositional(_)
ExpectedPositional(args) ==
    IF args = <<>> THEN <<>>
    ELSE <<format_object(Head(args))>> \o ExpectedPositional(Tail(args))
RECURSIVE ExpectedNamed(_)
ExpectedNamed(kwargs) ==
    IF kwargs = <<>> THEN <<>>
    ELSE <<Head(kwargs)[1] \o "=" \o format_object(Head(kwargs)[2])>>
         \o ExpectedNamed(Tail(kwargs))

\* C23: the invocation is rendered as the callable's name followed, in
\* parentheses and joined by ", ", by the rendering of each positional
\* argument in order and then name=rendering of each named argument in
\* order; for a bound method the rendering of its instance comes first.
C23_InvocationRendering ==
    unit.op = "invocation" =>
        LET leading == IF unit.callable.binding = NoBinding THEN <<>>
                       ELSE <<format_object(unit.callable.binding)>>
        IN  unit.out =
                Returned(unit.callable.module \o "." \o unit.callable.func \o "("
                         \o join(", ", leading \o ExpectedPositional(unit.args)
                                       \o ExpectedNamed(unit.kwargs))
                         \o ")")

NextUnit ==
    \/ InvokeWithArguments
    \/ CallThroughAttribute
    \/ Construct
    \/ AttributeCaller
    \/ UnitLogEnter
    \/ UnitTarget
    \/ UnitLogExit
    \/ \E t \in Threads :
        \/ OtherCall(t)
        \/ OtherLogEnter(t)
        \/ OtherTarget(t)
        \/ OtherLogExit(t)
        \/ CommonStep(t)
    \/ FormatElapsed
    \/ FormatStack
    \/ FormatObject
    \/ FormatInvocation

SpecUnit == Init /\ [][NextUnit]_vars

(* ===================== the invocation context alone ==================== *)
(* One thread constructs contexts and calls __enter__ and __exit__ on them *)
(* in any order, as the object allows.  SpecCtx keeps the contexts and the *)
(* clock in `unit`; the thread's depth is call_stack_level[1].  While the  *)
(* constructor draws its serial number, its activation is on stack[1] and  *)
(* takes the steps of _get_serial_number one at a time.                    *)
MaxContexts == 2
MaxClock == 2

\* An attribute that is declared but not assigned (lines 50-52), or assigned.
Unset == [set |-> FALSE]
Assigned(v) == [set |-> TRUE, v |-> v]

Contexts == IF unit.op = "context" THEN unit.ctxs ELSE <<>>
Clock == IF unit.op = "context" THEN unit.clock ELSE 0
CtxUnit(ctxs, clock, call, i, result) ==
    [op |-> "context", ctxs |-> ctxs, clock |-> clock,
     last |-> [call |-> call, ctx |-> i, result |-> result]]

\* The thread is not inside the constructor.
CtxIdle == stack[1] = <<>>

\* _InvocationContext(frame=...) is called: __init__ starts with
\* _get_serial_number (line 49).
CtxNew ==
    /\ unit.op \in {"none", "context"}
    /\ CtxIdle
    /\ Len(Contexts) < MaxContexts
    /\ stack' = [stack EXCEPT ![1] = Append(@, NewFrame(call_arg))]
    /\ unit' = CtxUnit(Contexts, Clock, "new", Len(Contexts) + 1, None)
    /\ UNCHANGED <<serial_number, serial_number_lock, call_stack_level, log, ncalls,
                   issued, call_arg>>

\* with cls._serial_number_lock: cls._serial_number += 1;
\* serial_number = cls._serial_number (lines 89-92), step by step.
CtxSerial ==
    /\ unit.op = "context"
    /\ \/ Acquire(1)
       \/ Load(1)
       \/ Store(1)
       \/ Read(1)
       \/ Release(1)

\* The rest of __init__ (lines 50-54): the flags are cleared, the level and
\* the times are not assigned yet, and the constructor returns the context.
CtxBuilt ==
    /\ unit.op = "context"
    /\ stack[1] # <<>>
    /\ Top(1).pc = "enter"
    /\ stack' = [stack EXCEPT ![1] = SubSeq(@, 1, Len(@) - 1)]
    /\ unit' = CtxUnit(Append(Contexts,
                              [serial |-> Top(1).serial, entered |-> FALSE,
                               exited |-> FALSE, stack_level |-> Unset,
                               start_time |-> Unset, elapsed_time |-> Unset]),
                       Clock, "built", Len(Contexts) + 1, None)
    /\ UNCHANGED <<serial_number, serial_number_lock, call_stack_level, log, ncalls,
                   issued, call_arg>>

\* context.__enter__(): the context and the thread's depth after the call,
\* and what the call gave.
CtxEnterOutcome(c, clock) ==
    IF c.entered THEN [result |-> Raised("AssertionError"), ctx |-> c, depth |-> Depth(1)]
    ELSE [result |-> Returned("self"),
          ctx |-> [c EXCEPT !.entered = TRUE,
                            !.stack_level = Assigned(EnterLevel(Depth(1))),
                            !.start_time = Assigned(clock)],
          depth |-> EnterLevel(Depth(1))]

\* context.__exit__(None, None, None): reading self._stack_level of a context
\* never entered is an AttributeError; nothing else is checked.
CtxExitOutcome(c, clock) ==
    IF ~c.stack_level.set THEN [result |-> Raised("AttributeError"), ctx |-> c, depth |-> Depth(1)]
    ELSE [result |-> Returned("False"),
          ctx |-> [c EXCEPT !.elapsed_time = Assigned(clock - c.start_time.v),
                            !.exited = TRUE],
          depth |-> ExitDepth(c.stack_level.v)]

CtxApply(i, call, outcome) ==
    /\ CtxIdle
    /\ unit' = CtxUnit([Contexts EXCEPT ![i] = outcome.ctx], Clock, call, i, outcome.result)
    /\ call_stack_level' = [call_stack_level EXCEPT ![1] = outcome.depth]
    /\ UNCHANGED <<serial_number, serial_number_lock, stack, log, ncalls, issued, call_arg>>

CtxEnter ==
    \E i \in DOMAIN Contexts : CtxApply(i, "enter", CtxEnterOutcome(Contexts[i], Clock))

CtxExit ==
    \E i \in DOMAIN Contexts : CtxApply(i, "exit", CtxExitOutcome(Contexts[i], Clock))

\* time.perf_counter() moves on.
Tick ==
    /\ unit.op = "context"
    /\ Clock < MaxClock
    /\ unit' = CtxUnit(Contexts, Clock + 1, "tick", 0, None)
    /\ UNCHANGED mainvars

\* context.stack_level: assert self._entered; return self._stack_level
stack_level_read(c) ==
    IF c.entered THEN Returned(c.stack_level.v) ELSE Raised("AssertionError")

\* context.elapsed_time: assert self._exited; return self._elapsed_time
elapsed_time_read(c) ==
    IF c.exited THEN Returned(c.elapsed_time.v) ELSE Raised("AssertionError")

\* Reading a property changes neither the contexts nor the thread's depth.
CtxReadStackLevel ==
    /\ CtxIdle
    /\ \E i \in DOMAIN Contexts :
        unit' = CtxUnit(Contexts, Clock, "stack_level", i, stack_level_read(Contexts[i]))
    /\ UNCHANGED mainvars

CtxReadElapsedTime ==
    /\ CtxIdle
    /\ \E i \in DOMAIN Contexts :
        unit' = CtxUnit(Contexts, Clock, "elapsed_time", i, elapsed_time_read(Contexts[i]))
    /\ UNCHANGED mainvars

NextCtx ==
    \/ CtxNew
    \/ CtxSerial
    \/ CtxBuilt
    \/ CtxEnter
    \/ CtxExit
    \/ Tick
    \/ CtxReadStackLevel
    \/ CtxReadElapsedTime

SpecCtx == Init /\ [][NextCtx]_vars

\* Unopened, Open or Closed, from the context's flags.
CtxState(c) ==
    IF c.exited THEN "Closed" ELSE IF c.entered THEN "Open" ELSE "Unopened"

\* C16: a context only moves Unopened -> Open -> Closed; __enter__ on a
\* context that is Open or Closed, and __exit__ on a context that is Closed,
\* end in an AssertionError and leave the thread's depth and the context's
\* level and elapsed time as they were.
C16_ContextStateMachine ==
    [][unit'.op = "context" /\ unit'.last.call \in {"enter", "exit"} =>
        LET i == unit'.last.ctx
            before == Contexts[i]
            after == unit'.ctxs[i]
            illegal == \/ unit'.last.call = "enter" /\ CtxState(before) # "Unopened"
                       \/ unit'.last.call = "exit" /\ CtxState(before) = "Closed"
        IN  /\ <<CtxState(before), CtxState(after)>> \in
                  {<<"Unopened", "Unopened">>, <<"Unopened", "Open">>, <<"Open", "Open">>,
                   <<"Open", "Closed">>, <<"Closed", "Closed">>}
            /\ illegal =>
                  /\ unit'.last.result = Raised("AssertionError")
                  /\ call_stack_level' = call_stack_level
                  /\ after.stack_level = before.stack_level
                  /\ after.elapsed_time = before.elapsed_time]_vars

\* C21: reading stack_level of a context not yet entered, or elapsed_time of
\* a context not yet exited, ends in an AssertionError; once entered, the
\* read of stack_level gives the level set at entry, which is the thread's
\* depth at entry plus 1 and which no later step changes; once exited, the
\* read of elapsed_time gives the duration set at exit, which no later step
\* changes.
C21_PropertiesAfterTransition ==
    [][unit'.op = "context" =>
        /\ unit'.last.call = "stack_level" =>
              LET c == Contexts[unit'.last.ctx]
              IN  IF c.entered THEN unit'.last.result = Returned(c.stack_level.v)
                  ELSE unit'.last.result = Raised("AssertionError")
        /\ unit'.last.call = "elapsed_time" =>
              LET c == Contexts[unit'.last.ctx]
              IN  IF c.exited THEN unit'.last.result = Returned(c.elapsed_time.v)
                  ELSE unit'.last.result = Raised("AssertionError")
        /\ \A j \in DOMAIN Contexts :
              /\ ~Contexts[j].entered /\ unit'.ctxs[j].entered =>
                    unit'.ctxs[j].stack_level = Assigned(call_stack_level[1] + 1)
              /\ Contexts[j].entered =>
                    unit'.ctxs[j].stack_level = Contexts[j].stack_level
              /\ Contexts[j].exited =>
                    unit'.ctxs[j].elapsed_time = Contexts[j].elapsed_time]_vars
====
